---- MODULE Spec2Model ----
(***************************************************************************)
(* Model of the deterministic core of banana-slides' AI adapters:          *)
(*   - LazyLLMImageProvider.generate_image (size computation, temporary    *)
(*     reference files)            backend/services/ai_providers/image     *)
(*   - AIService.flatten_outline, generate_outline_text,                   *)
(*     extract_image_urls_from_markdown     backend/services/ai_service.py *)
(*   - get_lazyllm_api_key, ensure_lazyllm_namespace_key                   *)
(*                              backend/services/ai_providers/lazyllm_env  *)
(*   - gen_image (fixed size per tier)           v0_demo/lazyllm_genai.py  *)
(* Python str values that the code formats, joins or scans are modelled as *)
(* sequences of one-character strings; dict keys and enumerated tags that  *)
(* are only compared for equality are TLA+ strings.                        *)
(***************************************************************************)
EXTENDS Integers, Sequences, FiniteSets, TLC

VARIABLES
    pc,            \* which call is pending / finished
    aspect_ratio,  \* generate_image argument
    resolution,    \* generate_image argument (tier tag)
    ref_images,    \* generate_image argument: number of reference images
    w, h,          \* generate_image locals after line 87
    size,          \* the string of line 88, as passed to the client
    temp_files,    \* temporary files present in the file system
    outcome,       \* how generate_image left: a return value or an exception
    heap,          \* the dict objects: heap[a] is the dict at address a
    outline,       \* the outline argument: a list of addresses of dicts
    flat,          \* results of flatten_outline: flat[1] for outline, flat[n+1] for flat[n]
    text,          \* << >>, or <<s>> once generate_outline_text(outline) returned s
    md_text,       \* extract_image_urls_from_markdown argument
    urls,          \* its result
    demo_args,     \* v0_demo gen_image: the arguments of the calls to be made
    demo_sent,     \* v0_demo gen_image: per call made, what reached the provider
    environ,       \* os.environ: the variables that are set, with their values
    env_call,      \* the last lazyllm_env call: its arguments and return value
    items,         \* an outline decoded from JSON whose elements may be of any type
    any_result     \* results of the outline functions on items

imageVars == <<aspect_ratio, resolution, ref_images, w, h, size, temp_files, outcome>>
outlineVars == <<heap, outline, flat, text>>
markdownVars == <<md_text, urls>>
demoVars == <<demo_args, demo_sent>>
envVars == <<environ, env_call>>
anyVars == <<items, any_result>>
vars == <<pc, imageVars, outlineVars, markdownVars, demoVars, envVars, anyVars>>

\* the variables of a component no call is made on
IdleDemo == demo_args = <<>> /\ demo_sent = <<>>
IdleEnv == environ = <<>> /\ env_call = [fn |-> "none"]
IdleAny == items = <<>> /\ any_result = [fn |-> "none"]

(***************************************************************************)
(* Bounds                                                                  *)
(***************************************************************************)
MaxRefs == 2
MaxItems == 2          \* top-level elements of an outline
MaxPages == 2          \* pages of one part
MaxFlattenCalls == 2   \* flatten_outline applied to its own result
MaxSegments == 4       \* pieces a markdown text is put together from
MaxDemoCalls == 2      \* gen_image calls that are compared

(***************************************************************************)
(* Generic helpers                                                         *)
(***************************************************************************)
Max(a, b) == IF a >= b THEN a ELSE b

RECURSIVE GCD(_, _)
GCD(a, b) == IF b = 0 THEN a ELSE GCD(b, a % b)

Digit(d) == CASE d = 0 -> "0" [] d = 1 -> "1" [] d = 2 -> "2" [] d = 3 -> "3"
              [] d = 4 -> "4" [] d = 5 -> "5" [] d = 6 -> "6" [] d = 7 -> "7"
              [] d = 8 -> "8" [] d = 9 -> "9"

\* str(n) for a non-negative int: its decimal digits
RECURSIVE IntToStr(_)
IntToStr(n) == IF n < 10 THEN <<Digit(n)>> ELSE IntToStr(n \div 10) \o <<Digit(n % 10)>>

(***************************************************************************)
(* generate_image: resolution + aspect ratio -> pixel dimensions           *)
(***************************************************************************)
min_pixels == 3686400

\* the dict aspect_ratios with .get(aspect_ratio, (16, 9))
AspectRatios(ar) ==
    CASE ar = "16:9" -> <<16, 9>>
      [] ar = "4:3"  -> <<4, 3>>
      [] ar = "1:1"  -> <<1, 1>>
      [] OTHER       -> <<16, 9>>

\* the dict resolution_base with the largest base as the default
ResolutionBaseDefaultMut(res) ==
    CASE res = "1K" -> 1024
      [] res = "2K" -> 2048
      [] res = "4K" -> 4096
      [] OTHER      -> 4096

\* the dict resolution_base with .get(resolution, 2048)
ResolutionBase(res) ==
    CASE res = "1K" -> 1024
      [] res = "2K" -> 2048
      [] res = "4K" -> 4096
      [] OTHER      -> 2048

\* lines 72-77 with the two branches exchanged
RatioSplitMut(base, ratio) ==
    IF ratio[1] >= ratio[2]
    THEN <<(base * ratio[2]) \div ratio[1], base>>
    ELSE <<base, (base * ratio[1]) \div ratio[2]>>

\* lines 72-77: the longer edge is base, the other int(base * r / R).
\* base * r is an int and the quotient is exact or truncated by int().
RatioSplit(base, ratio) ==
    IF ratio[1] >= ratio[2]
    THEN <<base, (base * ratio[2]) \div ratio[1]>>
    ELSE <<(base * ratio[1]) \div ratio[2], base>>

\* Largest k in lo..hi with k*k*den <= num (hi is never a solution).
RECURSIVE FloorSqrtSearch(_, _, _, _)
FloorSqrtSearch(lo, hi, num, den) ==
    IF hi - lo <= 1 THEN lo
    ELSE LET mid == (lo + hi) \div 2
         IN IF mid * mid * den <= num
            THEN FloorSqrtSearch(mid, hi, num, den)
            ELSE FloorSqrtSearch(lo, mid, num, den)

\* int(d * (min_pixels / (d * o)) ** 0.5): the floor of sqrt(min_pixels*d/o).
\* d/o is reduced by its gcd to keep the products inside 32 bits; for the
\* ratios of the table the result is below 8192.
ScaleDim(d, o) ==
    LET g == GCD(d, o)
    IN FloorSqrtSearch(0, 8192, min_pixels * (d \div g), o \div g)

\* lines 79-84 with the comparison of line 81 turned around
MinPixelScaleMut(dims) ==
    IF dims[1] * dims[2] > min_pixels
    THEN <<ScaleDim(dims[1], dims[2]), ScaleDim(dims[2], dims[1])>>
    ELSE dims

\* lines 79-84
MinPixelScale(dims) ==
    IF dims[1] * dims[2] < min_pixels
    THEN <<ScaleDim(dims[1], dims[2]), ScaleDim(dims[2], dims[1])>>
    ELSE dims

\* rounding down to a multiple of 64
Align64Mut(x) == Max(64, (x \div 64) * 64)

\* rounding to the multiple of 64 above x, also when x is one
Align64UpMut(x) == Max(64, ((x + 64) \div 64) * 64)

\* lines 86-87: max(64, ((x + 63) // 64) * 64)
Align64(x) == Max(64, ((x + 63) \div 64) * 64)

\* lines 70-87 as a whole: (w, h) before the size string is formatted
Resolve(ar, res) ==
    LET scaled == MinPixelScale(RatioSplit(ResolutionBase(res), AspectRatios(ar)))
    IN <<Align64(scaled[1]), Align64(scaled[2])>>

\* line 88: f"{w}x{h}"
SizeString(ww, hh) == IntToStr(ww) \o <<"x">> \o IntToStr(hh)

(***************************************************************************)
(* generate_image: the call as a whole                                     *)
(***************************************************************************)
AspectInputs == {"16:9", "4:3", "1:1", "9:16", "21:9"}
ResolutionInputs == {"1K", "2K", "4K", "1920*1080", "8K", "1k"}

\* name of the i-th temporary file of the call (NamedTemporaryFile)
TempPath(i) == i

\* What the collaborators do during one call:
\*   saveFail  0, or the index of the reference image whose save() raises
\*   reply     what the client call and the decoding of its answer give
Replies == {"raise", "empty", "dict_no_files", "unloadable", "image"}

GenerateImage ==
    /\ pc = "generate_image"
    /\ \E saveFail \in 0..ref_images, reply \in Replies :
        LET dims == Resolve(aspect_ratio, resolution)
            \* lines 101-108: files created before save() raised, all if none did
            created == IF saveFail = 0 THEN 1..ref_images ELSE 1..saveFail
        IN /\ w' = dims[1]
           /\ h' = dims[2]
           /\ IF saveFail # 0
              THEN \* img.save raises before the try of line 109 is entered
                   /\ size' = <<>>
                   /\ temp_files' = temp_files \cup {TempPath(i) : i \in created}
                   /\ outcome' = "SaveError"
              ELSE \* lines 109-136: the finally clause removes temp_paths
                   /\ size' = SizeString(dims[1], dims[2])
                   /\ temp_files' = (temp_files \cup {TempPath(i) : i \in created})
                                      \ {TempPath(i) : i \in created}
                   /\ outcome' = CASE reply = "raise" -> "ClientError"
                                   [] reply = "empty" -> "ValueError"
                                   [] reply = "dict_no_files" -> "None"
                                   [] reply = "unloadable" -> "None"
                                   [] reply = "image" -> "Image"
    /\ pc' = "done"
    /\ UNCHANGED <<aspect_ratio, resolution, ref_images, outlineVars, markdownVars,
                   demoVars, envVars, anyVars>>

InitImage ==
    /\ pc = "generate_image"
    /\ aspect_ratio \in AspectInputs
    /\ resolution \in ResolutionInputs
    /\ ref_images \in 0..MaxRefs
    /\ w = 0 /\ h = 0
    /\ size = <<>>
    /\ temp_files = {}
    /\ outcome = "pending"
    /\ heap = <<>> /\ outline = <<>> /\ flat = <<>> /\ text = <<>>
    /\ md_text = [isNone |-> TRUE, str |-> <<>>] /\ urls = <<>>
    /\ IdleDemo /\ IdleEnv /\ IdleAny

NextImage == GenerateImage

SpecImage == InitImage /\ [][NextImage]_vars

(***************************************************************************)
(* Python dicts and lists                                                  *)
(* A dict is a function from the keys it has to their values; dicts live   *)
(* in the heap and are referred to by address, so that a write through one *)
(* reference is seen through every other.  A list is a sequence.           *)
(***************************************************************************)
\* d.setdefault(k, v) in place of d[k] = v
SetItemMut(d, k, v) == [x \in DOMAIN d \cup {k} |-> IF x \in DOMAIN d THEN d[x] ELSE v]

\* d[k] = v
SetItem(d, k, v) == [x \in DOMAIN d \cup {k} |-> IF x = k THEN v ELSE d[x]]

\* d.get(k, default)
DictGet(d, k, default) == IF k \in DOMAIN d THEN d[k] ELSE default

\* page.copy(): the reference is reused and no new dict is made
DictCopyMut(hp, a) == [heap |-> hp, addr |-> a]

\* page.copy(): a new dict with the same keys and values (shallow)
DictCopy(hp, a) == [heap |-> Append(hp, hp[a]), addr |-> Len(hp) + 1]

\* the dict at address a, with the lists of dicts under "pages" followed
RECURSIVE Deref(_, _)
Deref(hp, a) ==
    [k \in DOMAIN hp[a] |->
        IF k = "pages"
        THEN [i \in 1..Len(hp[a][k]) |-> Deref(hp, hp[a][k][i])]
        ELSE hp[a][k]]

DerefList(hp, l) == [i \in 1..Len(l) |-> Deref(hp, l[i])]

(***************************************************************************)
(* AIService.flatten_outline                                               *)
(***************************************************************************)
\* line 139
IsPart(item) == "part" \in DOMAIN item /\ "pages" \in DOMAIN item

\* lines 141-144, from the j-th page of the part on
RECURSIVE FlattenPages(_, _, _, _, _)
FlattenPages(hp, pages, part, plist, j) ==
    IF j > Len(plist) THEN [heap |-> hp, pages |-> pages]
    ELSE LET c == DictCopy(hp, plist[j])
             hp2 == [c.heap EXCEPT ![c.addr] = SetItem(@, "part", part)]
         IN FlattenPages(hp2, Append(pages, c.addr), part, plist, j + 1)

\* a direct page is inserted at the front instead of appended
RECURSIVE FlattenItemsMut(_, _, _, _)
FlattenItemsMut(hp, pages, ol, i) ==
    IF i > Len(ol) THEN [heap |-> hp, pages |-> pages]
    ELSE LET item == hp[ol[i]]
         IN IF IsPart(item)
            THEN LET r == FlattenPages(hp, pages, item["part"], item["pages"], 1)
                 IN FlattenItemsMut(r.heap, r.pages, ol, i + 1)
            ELSE FlattenItemsMut(hp, <<ol[i]>> \o pages, ol, i + 1)

\* lines 138-147, from the i-th element of the outline on
RECURSIVE FlattenItems(_, _, _, _)
FlattenItems(hp, pages, ol, i) ==
    IF i > Len(ol) THEN [heap |-> hp, pages |-> pages]
    ELSE LET item == hp[ol[i]]
         IN IF IsPart(item)
            THEN LET r == FlattenPages(hp, pages, item["part"], item["pages"], 1)
                 IN FlattenItems(r.heap, r.pages, ol, i + 1)
            ELSE FlattenItems(hp, Append(pages, ol[i]), ol, i + 1)

\* the loop starts at the second element
flatten_outlineMut(hp, ol) == FlattenItems(hp, <<>>, ol, 2)

\* lines 137-148
flatten_outline(hp, ol) == FlattenItems(hp, <<>>, ol, 1)

(***************************************************************************)
(* AIService.generate_outline_text                                         *)
(***************************************************************************)
\* sep.join(parts)
RECURSIVE Join(_, _)
Join(parts, sep) ==
    IF Len(parts) = 0 THEN <<>>
    ELSE IF Len(parts) = 1 THEN parts[1]
    ELSE parts[1] \o sep \o Join(Tail(parts), sep)

\* the pieces of s between occurrences of the character c (s.split(c))
RECURSIVE SplitOn(_, _)
SplitOn(s, c) ==
    IF \A i \in 1..Len(s) : s[i] # c THEN <<s>>
    ELSE LET k == CHOOSE i \in 1..Len(s) : s[i] = c /\ \A j \in 1..(i - 1) : s[j] # c
         IN <<SubSeq(s, 1, k - 1)>> \o SplitOn(SubSeq(s, k + 1, Len(s)), c)

IsBlankChar(c) == c \in {" ", "\t"}

\* textwrap.dedent: a line of blanks only (or empty) carries no indentation
IsBlankLine(l) == \A i \in 1..Len(l) : IsBlankChar(l[i])

\* the number of leading blanks of a line
IndentLen(l) ==
    IF IsBlankLine(l) THEN Len(l)
    ELSE (CHOOSE i \in 1..Len(l) : ~IsBlankChar(l[i]) /\ \A j \in 1..(i - 1) : IsBlankChar(l[j])) - 1

\* length of the longest common prefix of two strings
CommonPrefixLen(a, b) ==
    LET n == IF Len(a) <= Len(b) THEN Len(a) ELSE Len(b)
        agree == {k \in 0..n : \A j \in 1..k : a[j] = b[j]}
    IN CHOOSE k \in agree : \A k2 \in agree : k2 <= k

\* textwrap.dedent margin: the common leading blanks of the lines that have text
RECURSIVE MarginOf(_, _, _)
MarginOf(ls, i, margin) ==
    IF i > Len(ls) THEN margin
    ELSE IF IsBlankLine(ls[i]) THEN MarginOf(ls, i + 1, margin)
    ELSE LET ind == SubSeq(ls[i], 1, IndentLen(ls[i]))
         IN MarginOf(ls, i + 1, SubSeq(margin, 1, CommonPrefixLen(margin, ind)))

\* textwrap.dedent(s): blank lines become empty, the margin is removed
Dedent(s) ==
    LET ls == SplitOn(s, "\n")
        texts == {i \in 1..Len(ls) : ~IsBlankLine(ls[i])}
        first == IF texts = {} THEN <<>>
                 ELSE LET i == CHOOSE x \in texts : \A y \in texts : x <= y
                      IN SubSeq(ls[i], 1, IndentLen(ls[i]))
        margin == MarginOf(ls, 1, first)
    IN Join([i \in 1..Len(ls) |->
                IF IsBlankLine(ls[i]) THEN <<>>
                ELSE SubSeq(ls[i], Len(margin) + 1, Len(ls[i]))], <<"\n">>)

Untitled == <<"U", "n", "t", "i", "t", "l", "e", "d">>

\* lines 204-207: what follows "{i}. "
ItemLabel(item) ==
    IF IsPart(item) THEN item["part"]
    ELSE DictGet(item, "title", Untitled)

\* enumerate(outline) without the start value 1
TextPartsMut(hp, ol) ==
    [i \in 1..Len(ol) |-> IntToStr(i - 1) \o <<".", " ">> \o ItemLabel(hp[ol[i]])]

\* lines 203-207: text_parts
TextParts(hp, ol) ==
    [i \in 1..Len(ol) |-> IntToStr(i) \o <<".", " ">> \o ItemLabel(hp[ol[i]])]

\* lines 202-209
generate_outline_text(hp, ol) == Dedent(Join(TextParts(hp, ol), <<"\n">>))

(***************************************************************************)
(* Outlines as json.loads delivers them (generate_outline, line 129)       *)
(***************************************************************************)
Str_A == <<"A">>
Str_B == <<"B">>
Str_C == <<"C">>
Str_Empty == <<>>
Str_TwoLines == <<"A", "\n", "B">>
PartNames == {<<"P">>, <<"Q">>}

\* a JSON object before it is allocated: its scalar entries d, and whether it
\* has a "pages" entry, with the objects of that list
Node(d, haspages, kids) == [d |-> d, haspages |-> haspages, kids |-> kids]

InnerNode == Node([title |-> Str_C, points |-> <<>>], FALSE, <<>>)

\* pages found inside a part
PageNodes ==
    { Node([title |-> Str_A, points |-> <<>>], FALSE, <<>>),
      Node([title |-> Str_B, points |-> <<>>, part |-> <<"Q">>], FALSE, <<>>),
      Node([title |-> Str_B, points |-> <<>>], TRUE, <<InnerNode>>) }

\* top-level elements that are not parts
DirectNodes ==
    { Node([title |-> Str_A, points |-> <<>>], FALSE, <<>>),
      Node([title |-> Str_B, points |-> <<>>, part |-> <<"Q">>], FALSE, <<>>),
      Node([title |-> Str_Empty, points |-> <<>>], FALSE, <<>>),
      Node([title |-> Str_TwoLines, points |-> <<>>], FALSE, <<>>),
      Node([points |-> <<>>], FALSE, <<>>),
      Node([points |-> <<>>], TRUE, <<InnerNode>>) }

SeqUpTo(S, n) == UNION {[1..k -> S] : k \in 0..n}

PartNodes == { Node([part |-> name], TRUE, ps) : name \in PartNames, ps \in SeqUpTo(PageNodes, MaxPages) }

OutlineInputs == SeqUpTo(DirectNodes \cup PartNodes, MaxItems)

\* allocation of a decoded JSON value: children first, then the object
RECURSIVE AllocNode(_, _)
RECURSIVE AllocList(_, _, _, _)
AllocList(hp, nodes, i, acc) ==
    IF i > Len(nodes) THEN [heap |-> hp, addrs |-> acc]
    ELSE LET r == AllocNode(hp, nodes[i])
         IN AllocList(r.heap, nodes, i + 1, Append(acc, r.addr))

AllocNode(hp, n) ==
    IF n.haspages
    THEN LET r == AllocList(hp, n.kids, 1, <<>>)
         IN [heap |-> Append(r.heap, SetItem(n.d, "pages", r.addrs)), addr |-> Len(r.heap) + 1]
    ELSE [heap |-> Append(hp, n.d), addr |-> Len(hp) + 1]

(***************************************************************************)
(* The outline service: calls on one decoded outline                       *)
(***************************************************************************)
\* pages = flatten_outline(outline), then flatten_outline(pages), ...
FlattenOutline ==
    /\ pc = "outline"
    /\ Len(flat) < MaxFlattenCalls
    /\ LET arg == IF flat = <<>> THEN outline ELSE flat[Len(flat)]
           r == flatten_outline(heap, arg)
       IN /\ heap' = r.heap
          /\ flat' = Append(flat, r.pages)
    /\ UNCHANGED <<pc, outline, text, imageVars, markdownVars, demoVars, envVars, anyVars>>

GenerateOutlineText ==
    /\ pc = "outline"
    /\ text = <<>>
    /\ text' = <<generate_outline_text(heap, outline)>>
    /\ UNCHANGED <<pc, heap, outline, flat, imageVars, markdownVars, demoVars, envVars, anyVars>>

InitOutline ==
    /\ pc = "outline"
    /\ \E ov \in OutlineInputs :
         LET r == AllocList(<<>>, ov, 1, <<>>)
         IN heap = r.heap /\ outline = r.addrs
    /\ flat = <<>>
    /\ text = <<>>
    /\ aspect_ratio = "16:9" /\ resolution = "1920*1080" /\ ref_images = 0
    /\ w = 0 /\ h = 0 /\ size = <<>> /\ temp_files = {} /\ outcome = "pending"
    /\ md_text = [isNone |-> TRUE, str |-> <<>>] /\ urls = <<>>
    /\ IdleDemo /\ IdleEnv /\ IdleAny

NextOutline == FlattenOutline \/ GenerateOutlineText

SpecOutline == InitOutline /\ [][NextOutline]_vars

(***************************************************************************)
(* AIService.extract_image_urls_from_markdown                              *)
(***************************************************************************)
NoNewline(t, i, j) == \A k \in i..j : t[k] # "\n"

MinOf(S) == CHOOSE x \in S : \A y \in S : x <= y

\* Where the pattern  !\[.*?\]\((.*?)\)  can match from position s: the
\* positions a of a "](" that ends the alt text such that a ")" closes the
\* url, '.' matching any character but a newline.
AltEnds(t, s) ==
    IF s + 1 > Len(t) \/ t[s] # "!" \/ t[s + 1] # "[" THEN {}
    ELSE {a \in (s + 2)..(Len(t) - 1) :
            /\ t[a] = "]" /\ t[a + 1] = "("
            /\ NoNewline(t, s + 2, a - 1)
            /\ \E b \in (a + 2)..Len(t) : t[b] = ")" /\ NoNewline(t, a + 2, b - 1)}

\* re.findall(pattern, text): the groups of the leftmost non-overlapping
\* matches from position pos on; both '.*?' take as little as possible
RECURSIVE FindAll(_, _)
FindAll(t, pos) ==
    LET starts == {s \in pos..Len(t) : AltEnds(t, s) # {}}
    IN IF starts = {} THEN <<>>
       ELSE LET s == MinOf(starts)
                a == MinOf(AltEnds(t, s))
                b == MinOf({x \in (a + 2)..Len(t) : t[x] = ")"})
            IN <<SubSeq(t, a + 2, b - 1)>> \o FindAll(t, b + 1)

IsSpace(c) == c \in {" ", "\t", "\n", "\r"}

\* str.strip()
Strip(u) ==
    LET keep == {i \in 1..Len(u) : ~IsSpace(u[i])}
    IN IF keep = {} THEN <<>>
       ELSE SubSeq(u, MinOf(keep), CHOOSE x \in keep : \A y \in keep : y <= x)

\* str.startswith(prefix)
StartsWith(u, prefix) ==
    Len(u) >= Len(prefix) /\ SubSeq(u, 1, Len(prefix)) = prefix

Str_Http == <<"h", "t", "t", "p", ":", "/", "/">>
Str_Https == <<"h", "t", "t", "p", "s", ":", "/", "/">>

\* line 50: the condition of the list comprehension
KeepsUrl(url) ==
    Strip(url) # <<>> /\ (StartsWith(url, Str_Http) \/ StartsWith(url, Str_Https))

\* line 50: [url.strip() for url in matches if ...]
RECURSIVE FilterUrls(_)
FilterUrls(matches) ==
    IF matches = <<>> THEN <<>>
    ELSE (IF KeepsUrl(Head(matches)) THEN <<Strip(Head(matches))>> ELSE <<>>)
            \o FilterUrls(Tail(matches))

\* lines 42-52; the argument is None or a str
extract_image_urls_from_markdown(arg) ==
    IF arg.isNone \/ arg.str = <<>> THEN <<>>
    ELSE FilterUrls(FindAll(arg.str, 1))

\* the pieces markdown inputs are put together from
Segments ==
    { <<"!", "[", "]", "(">>,
      <<")">>,
      Str_Http \o <<"a">>,
      Str_Https \o <<"b">>,
      <<" ">>,
      <<"x">>,
      <<"\n">>,
      <<"!", "[", "x", "]", "(">> \o Str_Http \o <<"a", ")">> }

RECURSIVE Concat(_)
Concat(ss) == IF ss = <<>> THEN <<>> ELSE Head(ss) \o Concat(Tail(ss))

MarkdownInputs ==
    {[isNone |-> TRUE, str |-> <<>>]}
      \cup {[isNone |-> FALSE, str |-> Concat(ss)] : ss \in SeqUpTo(Segments, MaxSegments)}

ExtractImageUrls ==
    /\ pc = "extract_image_urls"
    /\ urls' = extract_image_urls_from_markdown(md_text)
    /\ pc' = "done"
    /\ UNCHANGED <<md_text, imageVars, outlineVars, demoVars, envVars, anyVars>>

InitMarkdown ==
    /\ pc = "extract_image_urls"
    /\ md_text \in MarkdownInputs
    /\ urls = <<>>
    /\ aspect_ratio = "16:9" /\ resolution = "1920*1080" /\ ref_images = 0
    /\ w = 0 /\ h = 0 /\ size = <<>> /\ temp_files = {} /\ outcome = "pending"
    /\ heap = <<>> /\ outline = <<>> /\ flat = <<>> /\ text = <<>>
    /\ IdleDemo /\ IdleEnv /\ IdleAny

NextMarkdown == ExtractImageUrls

SpecMarkdown == InitMarkdown /\ [][NextMarkdown]_vars

(***************************************************************************)
(* v0_demo gen_image: the tier is mapped to a fixed size                   *)
(***************************************************************************)
IdleImage ==
    /\ aspect_ratio = "16:9" /\ resolution = "1920*1080" /\ ref_images = 0
    /\ w = 0 /\ h = 0 /\ size = <<>> /\ temp_files = {} /\ outcome = "pending"

IdleOutline == heap = <<>> /\ outline = <<>> /\ flat = <<>> /\ text = <<>>

IdleMarkdown == md_text = [isNone |-> TRUE, str |-> <<>>] /\ urls = <<>>

\* the dict resolution_map with the default size for an unknown key
ResolutionMapMut(res) ==
    CASE res = "1K" -> "1920*1080"
      [] res = "2K" -> "2048*1080"
      [] res = "4K" -> "3840*2160"
      [] OTHER      -> "1920*1080"

\* lines 111-116: resolution_map.get(resolution, resolution)
ResolutionMap(res) ==
    CASE res = "1K" -> "1920*1080"
      [] res = "2K" -> "2048*1080"
      [] res = "4K" -> "3840*2160"
      [] OTHER      -> res

\* lines 100-130 up to the call of the provider: what the call sends, or the
\* exception that ends it before
GenImageRequest(a) ==
    IF ~a.api_key /\ ~a.key_in_env
    THEN [sent |-> FALSE, size |-> "", error |-> "ValueError"]
    ELSE IF a.ref_image_path = "missing"
    THEN [sent |-> FALSE, size |-> "", error |-> "FileNotFoundError"]
    ELSE [sent |-> TRUE, size |-> ResolutionMap(a.resolution), error |-> ""]

DemoAspects == {"16:9", "4:3", "9:16"}
DemoResolutions == {"1K", "2K", "4K", "1920*1080", "1024*1024"}
DemoRefs == {"none", "present", "missing"}

\* the arguments of one call; key_in_env: API_KEYS has a key for the source
DemoArgs ==
    [aspect_ratio : DemoAspects, resolution : DemoResolutions,
     api_key : {TRUE}, key_in_env : {TRUE}, ref_image_path : DemoRefs]
      \cup [aspect_ratio : {"16:9"}, resolution : DemoResolutions,
           api_key : {FALSE}, key_in_env : BOOLEAN, ref_image_path : {"none"}]

GenImage ==
    /\ pc = "gen_image"
    /\ Len(demo_sent) < Len(demo_args)
    /\ demo_sent' = Append(demo_sent, GenImageRequest(demo_args[Len(demo_sent) + 1]))
    /\ UNCHANGED <<pc, demo_args, imageVars, outlineVars, markdownVars, envVars, anyVars>>

InitDemo ==
    /\ pc = "gen_image"
    /\ demo_args \in [1..MaxDemoCalls -> DemoArgs]
    /\ demo_sent = <<>>
    /\ IdleImage /\ IdleOutline /\ IdleMarkdown /\ IdleEnv /\ IdleAny

NextDemo == GenImage

SpecDemo == InitDemo /\ [][NextDemo]_vars

(***************************************************************************)
(* lazyllm_env: API keys looked up in, and cached in, os.environ           *)
(***************************************************************************)
\* str.upper() on the characters that occur
UpperChar(c) ==
    CASE c = "q" -> "Q" [] c = "w" -> "W" [] c = "e" -> "E" [] c = "n" -> "N"
      [] OTHER -> c

UpperStr(u) == [i \in 1..Len(u) |-> UpperChar(u[i])]

Str_ApiKeySuffix == <<"_", "A", "P", "I", "_", "K", "E", "Y">>
Str_BananaSlidesPrefix == <<"B", "A", "N", "A", "N", "A", "_", "S", "L", "I", "D", "E", "S", "_">>
Str_LazyllmPrefix == <<"L", "A", "Z", "Y", "L", "L", "M", "_">>
Str_BANANA == <<"B", "A", "N", "A", "N", "A">>
Str_LAZYLLM == <<"L", "A", "Z", "Y", "L", "L", "M">>
Str_qwen == <<"q", "w", "e", "n">>
Str_QWEN == <<"Q", "W", "E", "N">>

\* (source or "").upper(); the argument is None or a str
SourceUpper(source) == IF source.isNone THEN <<>> ELSE UpperStr(source.str)

\* f"{namespace}_{source_upper}_API_KEY"
NamespaceKey(namespace, source_upper) ==
    namespace \o <<"_">> \o source_upper \o Str_ApiKeySuffix

\* the list candidates with the vendor key looked up last
CandidatesMut(namespace, source_upper) ==
    << NamespaceKey(namespace, source_upper),
       Str_LazyllmPrefix \o source_upper \o Str_ApiKeySuffix,
       Str_BananaSlidesPrefix \o source_upper \o Str_ApiKeySuffix,
       source_upper \o Str_ApiKeySuffix >>

\* lines 21-26: candidates
Candidates(namespace, source_upper) ==
    << NamespaceKey(namespace, source_upper),
       source_upper \o Str_ApiKeySuffix,
       Str_BananaSlidesPrefix \o source_upper \o Str_ApiKeySuffix,
       Str_LazyllmPrefix \o source_upper \o Str_ApiKeySuffix >>

\* bool(os.getenv(key)): the variable is set and not empty
HasValue(env, key) == key \in DOMAIN env /\ env[key] # <<>>

\* lines 27-31: the first candidate with a value, from the i-th on
RECURSIVE FirstValue(_, _, _)
FirstValue(env, keys, i) ==
    IF i > Len(keys) THEN <<>>
    ELSE IF HasValue(env, keys[i]) THEN env[keys[i]]
    ELSE FirstValue(env, keys, i + 1)

\* lines 7-31
get_lazyllm_api_key(env, source, namespace) ==
    IF SourceUpper(source) = <<>> THEN <<>>
    ELSE FirstValue(env, Candidates(namespace, SourceUpper(source)), 1)

\* os.environ[key] = value
SetEnv(env, key, value) ==
    [k \in DOMAIN env \cup {key} |-> IF k = key THEN value ELSE env[k]]

\* lines 34-50 without the test of line 47
ensure_lazyllm_namespace_keyMut(env, source, namespace) ==
    IF SourceUpper(source) = <<>> THEN [env |-> env, ret |-> FALSE]
    ELSE LET namespace_key == NamespaceKey(namespace, SourceUpper(source))
         IN IF HasValue(env, namespace_key) THEN [env |-> env, ret |-> TRUE]
            ELSE [env |-> SetEnv(env, namespace_key,
                                 get_lazyllm_api_key(env, source, namespace)),
                  ret |-> TRUE]

\* lines 34-50: the environment after the call and the value returned
ensure_lazyllm_namespace_key(env, source, namespace) ==
    IF SourceUpper(source) = <<>> THEN [env |-> env, ret |-> FALSE]
    ELSE LET namespace_key == NamespaceKey(namespace, SourceUpper(source))
         IN IF HasValue(env, namespace_key) THEN [env |-> env, ret |-> TRUE]
            ELSE LET resolved_key == get_lazyllm_api_key(env, source, namespace)
                 IN IF resolved_key # <<>>
                    THEN [env |-> SetEnv(env, namespace_key, resolved_key), ret |-> TRUE]
                    ELSE [env |-> env, ret |-> FALSE]

\* the arguments calls are made with
SourceInputs ==
    { [isNone |-> TRUE, str |-> <<>>], [isNone |-> FALSE, str |-> <<>>],
      [isNone |-> FALSE, str |-> Str_qwen], [isNone |-> FALSE, str |-> Str_QWEN] }

NamespaceInputs == {Str_BANANA, Str_LAZYLLM}

\* the variables the environment may have at start, each with the values it
\* may have: 0 for not set, else the value
EnvOptions ==
    [k \in { NamespaceKey(Str_BANANA, Str_QWEN),
             Str_QWEN \o Str_ApiKeySuffix,
             Str_BananaSlidesPrefix \o Str_QWEN \o Str_ApiKeySuffix,
             Str_LazyllmPrefix \o Str_QWEN \o Str_ApiKeySuffix } |-> {0, 1, 2, 3}]
      @@ (NamespaceKey(Str_BANANA, <<>>) :> {0, 3})
      @@ ((Str_qwen \o Str_ApiKeySuffix) :> {0, 2})

EnvValue(n) == CASE n = 1 -> <<>> [] n = 2 -> <<"a">> [] n = 3 -> <<"b">>

GetKey ==
    /\ pc = "lazyllm_env"
    /\ \E source \in SourceInputs, namespace \in NamespaceInputs :
         env_call' = [fn |-> "get", source |-> source, namespace |-> namespace,
                      key |-> get_lazyllm_api_key(environ, source, namespace)]
    /\ UNCHANGED <<pc, environ, imageVars, outlineVars, markdownVars, demoVars, anyVars>>

EnsureKey ==
    /\ pc = "lazyllm_env"
    /\ \E source \in SourceInputs, namespace \in NamespaceInputs :
         LET r == ensure_lazyllm_namespace_key(environ, source, namespace)
         IN /\ environ' = r.env
            /\ env_call' = [fn |-> "ensure", source |-> source, namespace |-> namespace,
                             ok |-> r.ret]
    /\ UNCHANGED <<pc, imageVars, outlineVars, markdownVars, demoVars, anyVars>>

InitEnv ==
    /\ pc = "lazyllm_env"
    /\ \E choice \in [DOMAIN EnvOptions -> 0..3] :
         /\ \A k \in DOMAIN EnvOptions : choice[k] \in EnvOptions[k]
         /\ environ = [k \in {x \in DOMAIN EnvOptions : choice[x] # 0} |-> EnvValue(choice[k])]
    /\ env_call = [fn |-> "none"]
    /\ IdleImage /\ IdleOutline /\ IdleMarkdown /\ IdleDemo /\ IdleAny

NextEnv == GetKey \/ EnsureKey

SpecEnv == InitEnv /\ [][NextEnv]_vars

(***************************************************************************)
(* flatten_outline and generate_outline_text on elements of any JSON type  *)
(***************************************************************************)
\* a decoded JSON value: a dict (in the heap), a str, a list of str, a
\* number or null
DictItem(a) == [kind |-> "dict", addr |-> a]
StrItem(u) == [kind |-> "str", s |-> u]
ListItem(l) == [kind |-> "list", l |-> l]
IntItem(n) == [kind |-> "int", n |-> n]
NoneItem == [kind |-> "none"]

\* the characters of the two keys the code tests for
KeyChars(k) ==
    CASE k = "part" -> <<"p", "a", "r", "t">>
      [] k = "pages" -> <<"p", "a", "g", "e", "s">>

\* needle in u for two str: needle occurs in u
IsSubstring(needle, u) ==
    \E i \in 1..(Len(u) - Len(needle) + 1) : SubSeq(u, i, i + Len(needle) - 1) = needle

\* k in v: a key of a dict, a substring of a str, an element of a list; a
\* number or None is not iterable
PyIn(hp, k, v) ==
    CASE v.kind = "dict" -> IF k \in DOMAIN hp[v.addr] THEN "True" ELSE "False"
      [] v.kind = "str" -> IF IsSubstring(KeyChars(k), v.s) THEN "True" ELSE "False"
      [] v.kind = "list" -> IF \E i \in 1..Len(v.l) : v.l[i] = KeyChars(k) THEN "True" ELSE "False"
      [] OTHER -> "TypeError"

\* line 139 and line 204: "True", "False", or the exception of the test
PartTest(hp, v) ==
    LET c1 == PyIn(hp, "part", v)
    IN IF c1 = "True" THEN PyIn(hp, "pages", v) ELSE c1

\* lines 138-147 from the i-th element on, for elements of any type
RECURSIVE FlattenAny(_, _, _, _)
FlattenAny(hp, pages, its, i) ==
    IF i > Len(its) THEN [heap |-> hp, pages |-> pages, error |-> ""]
    ELSE LET item == its[i]
             t == PartTest(hp, item)
         IN IF t = "TypeError" THEN [heap |-> hp, pages |-> <<>>, error |-> "TypeError"]
            ELSE IF t = "True"
            THEN IF item.kind = "dict"
                 THEN LET r == FlattenPages(hp, <<>>, hp[item.addr]["part"],
                                            hp[item.addr]["pages"], 1)
                      IN FlattenAny(r.heap,
                                    pages \o [j \in 1..Len(r.pages) |-> DictItem(r.pages[j])],
                                    its, i + 1)
                 \* item["pages"] on a str or a list
                 ELSE [heap |-> hp, pages |-> <<>>, error |-> "TypeError"]
            ELSE FlattenAny(hp, Append(pages, item), its, i + 1)

\* lines 203-207 from the i-th element on, for elements of any type
RECURSIVE TextPartsAny(_, _, _, _)
TextPartsAny(hp, parts, its, i) ==
    IF i > Len(its) THEN [parts |-> parts, error |-> ""]
    ELSE LET item == its[i]
             t == PartTest(hp, item)
         IN IF t = "TypeError" THEN [parts |-> <<>>, error |-> "TypeError"]
            ELSE IF item.kind # "dict"
            \* item['part'] on a str or a list, or item.get
            THEN [parts |-> <<>>,
                  error |-> IF t = "True" THEN "TypeError" ELSE "AttributeError"]
            ELSE TextPartsAny(hp,
                    Append(parts, IntToStr(i) \o <<".", " ">> \o ItemLabel(hp[item.addr])),
                    its, i + 1)

Str_abc == <<"a", "b", "c">>
Str_part_pages == <<"p", "a", "r", "t", " ", "p", "a", "g", "e", "s">>

\* the dicts of the outlines below: a page, a page of a part, the part
AnyHeap ==
    << [title |-> Str_A, points |-> <<>>],
       [title |-> Str_B, points |-> <<>>],
       [part |-> <<"P">>, pages |-> <<2>>] >>

AnyItems ==
    { DictItem(1), DictItem(3),
      StrItem(Str_abc), StrItem(Str_part_pages),
      ListItem(<<Str_abc>>), ListItem(<<KeyChars("part"), KeyChars("pages")>>),
      IntItem(5), NoneItem }

FlattenOutlineAny ==
    /\ pc = "any_outline"
    /\ any_result.fn = "none"
    /\ LET r == FlattenAny(heap, <<>>, items, 1)
       IN /\ heap' = r.heap
          /\ any_result' = [fn |-> "flatten_outline", error |-> r.error, pages |-> r.pages]
    /\ UNCHANGED <<pc, items, outline, flat, text, imageVars, markdownVars, demoVars, envVars>>

GenerateOutlineTextAny ==
    /\ pc = "any_outline"
    /\ any_result.fn = "none"
    /\ LET r == TextPartsAny(heap, <<>>, items, 1)
       IN any_result' = [fn |-> "generate_outline_text", error |-> r.error,
                         text |-> IF r.error = "" THEN Dedent(Join(r.parts, <<"\n">>))
                                  ELSE <<>>]
    /\ UNCHANGED <<pc, items, outlineVars, imageVars, markdownVars, demoVars, envVars>>

InitAny ==
    /\ pc = "any_outline"
    /\ heap = AnyHeap
    /\ items \in SeqUpTo(AnyItems, MaxItems)
    /\ any_result = [fn |-> "none"]
    /\ outline = <<>> /\ flat = <<>> /\ text = <<>>
    /\ IdleImage /\ IdleMarkdown /\ IdleDemo /\ IdleEnv

NextAny == FlattenOutlineAny \/ GenerateOutlineTextAny

SpecAny == InitAny /\ [][NextAny]_vars

(***************************************************************************)
(* Properties of generate_image's size computation                         *)
(***************************************************************************)
SupportedAspects == {"16:9", "4:3", "1:1"}
SupportedTiers == {"1K", "2K", "4K"}

\* C1: after generate_image has computed the size, for every aspect ratio and
\* tier (recognized or not) the width and the height are each at least 64 and
\* a multiple of 64, and their product is at least 3,686,400.
C1_DimensionsAligned ==
    pc = "done" =>
        /\ w >= 64 /\ h >= 64
        /\ w % 64 = 0 /\ h % 64 = 0
        /\ w * h >= 3686400

\* the call for "4:3"/"1K" was scaled up and both edges were rounded up
C1_Witness ==
    /\ pc = "done" /\ aspect_ratio = "4:3" /\ resolution = "1K"
    /\ w = 2240 /\ h = 1664

\* C9: an unrecognized tier gives the dimensions of "2K" with the same aspect
\* ratio, an unrecognized aspect ratio gives those of "16:9" with the same
\* tier, and neither makes the call fail.
C9_UnknownFallsBack ==
    pc = "done" =>
        /\ resolution \notin SupportedTiers =>
              <<w, h>> = Resolve(aspect_ratio, "2K")
        /\ aspect_ratio \notin SupportedAspects =>
              <<w, h>> = Resolve("16:9", resolution)
        /\ outcome \in {"Image", "None", "ValueError", "ClientError", "SaveError"}

\* the parameter default "1920*1080" with a square ratio came out as 2K
C9_Witness ==
    /\ pc = "done" /\ resolution = "1920*1080" /\ aspect_ratio = "1:1"
    /\ w = 2048 /\ h = 2048

\* C10: for "16:9" and "1K" the split is 1024x576, the min-pixel rule scales
\* it to 2560x1440, and the aligned result is 2560x1472, sent as "2560x1472".
C10_Example16x9_1K ==
    (pc = "done" /\ aspect_ratio = "16:9" /\ resolution = "1K") =>
        /\ RatioSplit(ResolutionBase(resolution), AspectRatios(aspect_ratio)) = <<1024, 576>>
        /\ MinPixelScale(<<1024, 576>>) = <<2560, 1440>>
        /\ w = 2560 /\ h = 1472
        /\ outcome # "SaveError" =>
              size = <<"2", "5", "6", "0", "x", "1", "4", "7", "2">>

C10_Witness ==
    /\ pc = "done" /\ aspect_ratio = "16:9" /\ resolution = "1K"
    /\ outcome = "Image" /\ Len(size) = 9

(***************************************************************************)
(* Properties of flatten_outline                                           *)
(***************************************************************************)
\* the argument and the result of the flatten_outline call a step makes
FlattenArg == IF flat = <<>> THEN outline ELSE flat[Len(flat)]

FlattenStep == Len(flat') = Len(flat) + 1

FlattenResult == flat'[Len(flat')]

HasBothKeys(d) == "part" \in DOMAIN d /\ "pages" \in DOMAIN d

\* the dicts a flat list is to be made from, in order: an element with both
\* keys stands for its pages, any other element for itself
RECURSIVE Sources(_, _)
Sources(hp, ol) ==
    IF ol = <<>> THEN <<>>
    ELSE LET item == hp[Head(ol)]
             own == IF HasBothKeys(item)
                    THEN [j \in 1..Len(item["pages"]) |->
                            [addr |-> item["pages"][j], parent |-> Head(ol)]]
                    ELSE <<[addr |-> Head(ol), parent |-> 0]>>
         IN own \o Sources(hp, Tail(ol))

\* (number of direct pages) + (sum of the number of pages of each part)
RECURSIVE SumLen(_, _)
SumLen(hp, ol) ==
    IF ol = <<>> THEN 0
    ELSE LET item == hp[Head(ol)]
         IN (IF HasBothKeys(item) THEN Len(item["pages"]) ELSE 1) + SumLen(hp, Tail(ol))

WithoutPart(d) == [k \in DOMAIN d \ {"part"} |-> d[k]]

\* C2: the result of flatten_outline has one entry per direct page plus one
\* per page of each part, and its k-th entry is the k-th page of the input
\* read in order (the pages of a part contiguous and in their order, parts
\* and direct pages in input order): none is dropped or duplicated.
C2_LengthAndOrder ==
    [][FlattenStep =>
        LET src == Sources(heap, FlattenArg)
            out == FlattenResult
        IN /\ Len(out) = SumLen(heap, FlattenArg)
           /\ Len(out) = Len(src)
           /\ \A k \in 1..Len(out) :
                 WithoutPart(heap'[out[k]]) = WithoutPart(heap[src[k].addr])
    ]_vars

\* a direct page, then a part with two different pages, was flattened
C2_Witness ==
    /\ Len(flat) >= 1 /\ Len(outline) = 2 /\ Len(flat[1]) = 3
    /\ ~HasBothKeys(heap[outline[1]])
    /\ HasBothKeys(heap[outline[2]])
    /\ "title" \in DOMAIN heap[flat[1][2]] /\ "title" \in DOMAIN heap[flat[1][3]]
    /\ heap[flat[1][2]]["title"] # heap[flat[1][3]]["title"]

\* C3: an element is expanded as a part exactly when it has both keys; a
\* page that came from a part has "part" equal to the parent's value, also
\* when it had one, and otherwise the keys and values of the input page; any
\* other element is in the result as the very same, unmodified dict.
C3_PartAnnotation ==
    [][FlattenStep =>
        LET src == Sources(heap, FlattenArg)
            out == FlattenResult
        IN /\ Len(out) = Len(src)
           /\ \A k \in 1..Len(out) :
                LET before == heap[src[k].addr]
                    after == heap'[out[k]]
                IN IF src[k].parent # 0
                   THEN /\ DOMAIN after = DOMAIN before \cup {"part"}
                        /\ after["part"] = heap[src[k].parent]["part"]
                        /\ \A key \in DOMAIN before \ {"part"} : after[key] = before[key]
                   ELSE /\ out[k] = src[k].addr
                        /\ after = before
    ]_vars

\* a page that already had part "Q" came out of part "P" with "P", next to
\* an element that has "pages" but no "part" and was passed through
C3_Witness ==
    /\ Len(flat) >= 1 /\ Len(outline) = 2 /\ Len(flat[1]) = 2
    /\ HasBothKeys(heap[outline[1]])
    /\ heap[outline[1]]["part"] = <<"P">>
    /\ Len(heap[outline[1]]["pages"]) = 1
    /\ heap[heap[outline[1]]["pages"][1]] = [title |-> Str_B, points |-> <<>>, part |-> <<"Q">>]
    /\ heap[flat[1][1]] = [title |-> Str_B, points |-> <<>>, part |-> <<"P">>]
    /\ "pages" \in DOMAIN heap[outline[2]] /\ "part" \notin DOMAIN heap[outline[2]]
    /\ flat[1][2] = outline[2]

\* C4: flatten_outline changes no dict that existed before the call: every
\* part, every "pages" list and every page record keeps its keys and values.
C4_InputUnchanged ==
    [][FlattenStep =>
        /\ Len(heap') >= Len(heap)
        /\ \A a \in 1..Len(heap) : heap'[a] = heap[a]
    ]_vars

\* a part with a page was flattened: the copy is annotated, the page is not
C4_Witness ==
    /\ Len(flat) >= 1 /\ Len(outline) >= 1
    /\ HasBothKeys(heap[outline[1]])
    /\ Len(heap[outline[1]]["pages"]) >= 1
    /\ "part" \notin DOMAIN heap[heap[outline[1]]["pages"][1]]
    /\ "part" \in DOMAIN heap[flat[1][1]]

\* the data model's records: a page has at least "title" and "points", a
\* part has "part" and "pages", a list of pages
IsOutlinePage(hp, a) == {"title", "points"} \subseteq DOMAIN hp[a]

IsOutlinePart(hp, a) ==
    /\ HasBothKeys(hp[a])
    /\ \A j \in 1..Len(hp[a]["pages"]) : IsOutlinePage(hp, hp[a]["pages"][j])

IsOutline(hp, ol) ==
    \A i \in 1..Len(ol) : IsOutlinePage(hp, ol[i]) \/ IsOutlinePart(hp, ol[i])

\* no page of a part has a "pages" key of its own
NoPagesInsidePages(hp, ol) ==
    \A i \in 1..Len(ol) :
        HasBothKeys(hp[ol[i]]) =>
            \A j \in 1..Len(hp[ol[i]]["pages"]) :
                "pages" \notin DOMAIN hp[hp[ol[i]]["pages"][j]]

\* C5 as stated: for every outline of page and part records, flattening the
\* flat list again returns an equal list.
C5_IdempotentAsStated ==
    (Len(flat) >= 2 /\ IsOutline(heap, outline)) =>
        DerefList(heap, flat[2]) = DerefList(heap, flat[1])

\* C5 amended: when no page of a part has a "pages" key of its own,
\* flattening the flat list again returns an equal list (of the same dicts).
C5_IdempotentWithoutNestedPages ==
    (Len(flat) >= 2 /\ NoPagesInsidePages(heap, outline)) =>
        /\ DerefList(heap, flat[2]) = DerefList(heap, flat[1])
        /\ flat[2] = flat[1]

\* a part with two pages and a direct page were flattened twice
C5_Witness ==
    /\ Len(flat) >= 2 /\ Len(outline) = 2 /\ Len(flat[2]) = 3
    /\ HasBothKeys(heap[outline[1]])
    /\ NoPagesInsidePages(heap, outline)

(***************************************************************************)
(* Properties of generate_outline_text                                     *)
(***************************************************************************)
\* the lines of a text: none for the empty text
LinesOf(s) == IF s = <<>> THEN <<>> ELSE SplitOn(s, "\n")

HasNewline(s) == \E i \in 1..Len(s) : s[i] = "\n"

\* the name of a part, the title of another element if it has one
ShownString(d) ==
    IF HasBothKeys(d) THEN d["part"]
    ELSE IF "title" \in DOMAIN d THEN d["title"] ELSE <<>>

NumberedLines(s, n) ==
    /\ Len(LinesOf(s)) = n
    /\ \A i \in 1..n : StartsWith(LinesOf(s)[i], IntToStr(i) \o <<".", " ">>)

\* C7 as stated: the text has exactly N lines for N top-level elements, the
\* i-th numbered i.
C7_OneLinePerElementAsStated ==
    text # <<>> => NumberedLines(text[1], Len(outline))

\* C7 amended: when no part name and no title of a direct element contains a
\* newline, the text has exactly N lines for N top-level elements, the i-th
\* numbered i, however many pages the parts hold.
C7_OneLinePerElement ==
    (text # <<>> /\ \A i \in 1..Len(outline) : ~HasNewline(ShownString(heap[outline[i]])))
        => NumberedLines(text[1], Len(outline))

\* a part with two pages and a direct page gave two lines
C7_Witness ==
    /\ text # <<>> /\ Len(outline) = 2
    /\ HasBothKeys(heap[outline[1]]) /\ Len(heap[outline[1]]["pages"]) = 2
    /\ ~HasBothKeys(heap[outline[2]])
    /\ Len(LinesOf(text[1])) = 2

\* what the line of an element is to show: the name of a part, else the
\* title, else "Untitled" when the title is absent or empty
ExpectedLabel(d) ==
    IF HasBothKeys(d) THEN d["part"]
    ELSE IF "title" \in DOMAIN d /\ d["title"] # <<>> THEN d["title"]
    ELSE Untitled

\* C8: the line of a part shows the part's name, the line of any other
\* element its title, or "Untitled" when the title is absent or empty.
C8_LabelOrUntitled ==
    text # <<>> =>
        text[1] = Join([i \in 1..Len(outline) |->
                          IntToStr(i) \o <<".", " ">> \o ExpectedLabel(heap[outline[i]])],
                       <<"\n">>)

(***************************************************************************)
(* Properties of extract_image_urls_from_markdown                          *)
(***************************************************************************)
\* the trimmed url of every match whose trimmed url is non-empty and begins
\* with http:// or https://, in order of the matches
RECURSIVE TrimmedHttpUrls(_)
TrimmedHttpUrls(matches) ==
    IF matches = <<>> THEN <<>>
    ELSE LET u == Strip(Head(matches))
         IN (IF u # <<>> /\ (StartsWith(u, Str_Http) \/ StartsWith(u, Str_Https))
             THEN <<u>> ELSE <<>>) \o TrimmedHttpUrls(Tail(matches))

\* C6: the result is, in the order of the matches of ![alt](url), the trimmed
\* url of every match whose trimmed url is non-empty and begins with http://
\* or https:// (duplicates kept, others dropped), and is empty for empty or
\* absent input.
C6_TrimmedHttpUrlsInOrder ==
    pc = "done" =>
        urls = (IF md_text.isNone \/ md_text.str = <<>> THEN <<>>
                ELSE TrimmedHttpUrls(FindAll(md_text.str, 1)))

(***************************************************************************)
(* Further properties of generate_image                                    *)
(***************************************************************************)
\* C11: for "1:1" and "2K" the first branch of the split is taken (1 >= 1)
\* and gives 2048x2048, which the min-pixel rule and the alignment leave as
\* it is: the result is (2048, 2048).
C11_Example1x1_2K ==
    (pc = "done" /\ aspect_ratio = "1:1" /\ resolution = "2K") =>
        /\ AspectRatios(aspect_ratio)[1] >= AspectRatios(aspect_ratio)[2]
        /\ RatioSplit(ResolutionBase(resolution), AspectRatios(aspect_ratio)) = <<2048, 2048>>
        /\ MinPixelScale(<<2048, 2048>>) = <<2048, 2048>>
        /\ w = 2048 /\ h = 2048
        /\ outcome # "SaveError" =>
              size = <<"2", "0", "4", "8", "x", "2", "0", "4", "8">>

C11_Witness ==
    /\ pc = "done" /\ aspect_ratio = "1:1" /\ resolution = "2K"
    /\ outcome = "Image" /\ w = 2048

\* C13: when generate_image has exited, by a return or by an exception, no
\* temporary reference file of the call is left.
C13_TempFilesRemoved ==
    pc = "done" => temp_files = {}

NextTier(t) == CASE t = "1K" -> "2K" [] t = "2K" -> "4K" [] OTHER -> "4K"

\* C17: for a supported aspect ratio and tier the width is at least the
\* height, and neither is larger than for the next tier up.
C17_MonotoneLandscape ==
    (pc = "done" /\ aspect_ratio \in SupportedAspects /\ resolution \in SupportedTiers) =>
        /\ w >= h
        /\ w <= Resolve(aspect_ratio, NextTier(resolution))[1]
        /\ h <= Resolve(aspect_ratio, NextTier(resolution))[2]
        /\ Resolve(aspect_ratio, "1K")[1] <= Resolve(aspect_ratio, "2K")[1]
        /\ Resolve(aspect_ratio, "1K")[2] <= Resolve(aspect_ratio, "2K")[2]
        /\ Resolve(aspect_ratio, "2K")[1] <= Resolve(aspect_ratio, "4K")[1]
        /\ Resolve(aspect_ratio, "2K")[2] <= Resolve(aspect_ratio, "4K")[2]

\* the call for "4:3"/"2K" gave 2240x1664, below the 4096x3072 of "4K"
C17_Witness ==
    /\ pc = "done" /\ aspect_ratio = "4:3" /\ resolution = "2K"
    /\ w = 2240 /\ h = 1664
    /\ Resolve("4:3", "4K") = <<4096, 3072>>

(***************************************************************************)
(* Properties of v0_demo gen_image                                         *)
(***************************************************************************)
\* C14: the size a gen_image call sends is "1920*1080" for "1K", "2048*1080"
\* for "2K", "3840*2160" for "4K" and the resolution string itself otherwise;
\* two calls that differ only in aspect_ratio send the same size.
C14_SizeFromTierOnly ==
    /\ \A i \in 1..Len(demo_sent) :
          demo_sent[i].sent =>
            LET res == demo_args[i].resolution
            IN /\ res = "1K" => demo_sent[i].size = "1920*1080"
               /\ res = "2K" => demo_sent[i].size = "2048*1080"
               /\ res = "4K" => demo_sent[i].size = "3840*2160"
               /\ res \notin {"1K", "2K", "4K"} => demo_sent[i].size = res
    /\ \A i, j \in 1..Len(demo_sent) :
          ([demo_args[i] EXCEPT !.aspect_ratio = "16:9"]
             = [demo_args[j] EXCEPT !.aspect_ratio = "16:9"])
            => demo_sent[i] = demo_sent[j]

\* two calls for "1K", one for 16:9 and one for 9:16, both sent "1920*1080",
\* and a call with a literal resolution sent it as it is
C14_Witness ==
    /\ Len(demo_sent) = 2
    /\ demo_args[1].aspect_ratio = "16:9" /\ demo_args[2].aspect_ratio = "9:16"
    /\ demo_args[1].resolution = "1K" /\ demo_args[2].resolution = "1K"
    /\ demo_sent[1].sent /\ demo_sent[2].sent
    /\ demo_sent[1].size = "1920*1080" /\ demo_sent[2].size = "1920*1080"

(***************************************************************************)
(* Properties of lazyllm_env                                               *)
(***************************************************************************)
\* the value of a variable that is set
ValueIn(env, key) == IF key \in DOMAIN env THEN env[key] ELSE <<>>

\* the four variable names of a source, in the documented lookup order
KeyName1(ns, su) == ns \o <<"_">> \o su \o <<"_", "A", "P", "I", "_", "K", "E", "Y">>
KeyName2(su) == su \o <<"_", "A", "P", "I", "_", "K", "E", "Y">>
KeyName3(su) == <<"B", "A", "N", "A", "N", "A", "_", "S", "L", "I", "D", "E", "S", "_">> \o KeyName2(su)
KeyName4(su) == <<"L", "A", "Z", "Y", "L", "L", "M", "_">> \o KeyName2(su)

\* the value of the first of the fallback names (2, 3, 4) that has one
FirstFallback(env, su) ==
    IF ValueIn(env, KeyName2(su)) # <<>> THEN ValueIn(env, KeyName2(su))
    ELSE IF ValueIn(env, KeyName3(su)) # <<>> THEN ValueIn(env, KeyName3(su))
    ELSE ValueIn(env, KeyName4(su))

SourceIsEmpty(source) == source.isNone \/ source.str = <<>>

\* C15: get_lazyllm_api_key returns the value of the first of the four
\* variables, in lookup order, that is set and not empty, the empty string
\* if there is none or if source is empty or None, and leaves the
\* environment as it was.
C15_FirstNonEmptyKey ==
    [][env_call'.fn = "get" =>
        LET c == env_call'
            su == UpperStr(c.source.str)
        IN /\ environ' = environ
           /\ c.key = (IF SourceIsEmpty(c.source) THEN <<>>
                       ELSE IF ValueIn(environ, KeyName1(c.namespace, su)) # <<>>
                       THEN ValueIn(environ, KeyName1(c.namespace, su))
                       ELSE FirstFallback(environ, su))
    ]_vars

\* the namespace key is set but empty, the vendor key is not set, and the
\* call for "qwen" returned the legacy key's value, not the LazyLLM one
C15_Witness ==
    /\ env_call.fn = "get"
    /\ env_call.source.str = <<"q", "w", "e", "n">>
    /\ env_call.namespace = <<"B", "A", "N", "A", "N", "A">>
    /\ KeyName1(env_call.namespace, Str_QWEN) \in DOMAIN environ
    /\ environ[KeyName1(env_call.namespace, Str_QWEN)] = <<>>
    /\ KeyName2(Str_QWEN) \notin DOMAIN environ
    /\ ValueIn(environ, KeyName3(Str_QWEN)) = <<"a">>
    /\ ValueIn(environ, KeyName4(Str_QWEN)) = <<"b">>
    /\ env_call.key = <<"a">>

\* what C16 says of one ensure_lazyllm_namespace_key call, but for when it
\* returns True
EnsureFrame(c, key, su) ==
    \* a namespace key with a value is not overwritten
    /\ ValueIn(environ, key) # <<>> => ValueIn(environ', key) = ValueIn(environ, key)
    \* a newly written value is the first fallback with a value
    /\ environ' # environ =>
          /\ ValueIn(environ', key) = FirstFallback(environ, su)
          /\ ValueIn(environ', key) # <<>>
    \* a call that returns False leaves the environment unchanged
    /\ ~c.ok => environ' = environ
    \* no other variable is written
    /\ DOMAIN environ' \subseteq DOMAIN environ \cup {key}
    /\ \A k \in DOMAIN environ : k \in DOMAIN environ' /\ (k # key => environ'[k] = environ[k])
    \* a second identical call changes nothing
    /\ ensure_lazyllm_namespace_key(environ', c.source, c.namespace)
          = [env |-> environ', ret |-> c.ok]

\* C16 as stated: in any sequence of calls, each ensure_lazyllm_namespace_key
\* call returns True exactly when {namespace}_{SOURCE}_API_KEY has a value
\* after it, never overwrites such a value, writes only that variable and
\* only the first fallback with a value, changes nothing when it returns
\* False, and changes nothing when repeated.
C16_EnsureAsStated ==
    [][env_call'.fn = "ensure" =>
        LET c == env_call'
            su == SourceUpper(c.source)
            key == KeyName1(c.namespace, su)
        IN /\ EnsureFrame(c, key, su)
           /\ c.ok <=> ValueIn(environ', key) # <<>>
    ]_vars

\* C16 amended: as stated, except that a call returns True exactly when
\* source is not empty or None and the key has a value after the call.
C16_EnsureNonEmptySource ==
    [][env_call'.fn = "ensure" =>
        LET c == env_call'
            su == SourceUpper(c.source)
            key == KeyName1(c.namespace, su)
        IN /\ EnsureFrame(c, key, su)
           /\ c.ok <=> (~SourceIsEmpty(c.source) /\ ValueIn(environ', key) # <<>>)
    ]_vars

\* after a call for "QWEN" in namespace LAZYLLM that returned True:
\* LAZYLLM_QWEN_API_KEY keeps its own value "b" although the first fallback
\* with a value is the legacy key's "a", which BANANA_QWEN_API_KEY holds
C16_Witness ==
    /\ env_call.fn = "ensure" /\ env_call.ok
    /\ env_call.source.str = <<"Q", "W", "E", "N">>
    /\ env_call.namespace = <<"L", "A", "Z", "Y", "L", "L", "M">>
    /\ ValueIn(environ, KeyName1(Str_BANANA, Str_QWEN)) = <<"a">>
    /\ KeyName2(Str_QWEN) \in DOMAIN environ /\ environ[KeyName2(Str_QWEN)] = <<>>
    /\ ValueIn(environ, KeyName3(Str_QWEN)) = <<"a">>
    /\ ValueIn(environ, KeyName4(Str_QWEN)) = <<"b">>

(***************************************************************************)
(* Properties of the outline functions on elements that are not mappings   *)
(***************************************************************************)
HasNonMapping(its) == \E i \in 1..Len(its) : its[i].kind # "dict"

\* C12: when an element of the outline is not a mapping, flatten_outline and
\* generate_outline_text end with a type error and return nothing.
C12_NonMappingFailsFast ==
    (any_result.fn # "none" /\ HasNonMapping(items)) =>
        any_result.error \in {"TypeError", "AttributeError"}

====
